---- MODULE Spec2Model ----
(***************************************************************************)
(* The story-generation pipeline of backend/: the document store           *)
(* (story_projects, agent_progress), the start endpoint of server.py, and  *)
(* MasterOrchestrator.orchestrate_story_generation with the agents it      *)
(* drives.  Every await of the source (a store operation or a call to the  *)
(* text-generation service) is one step of a run, so that requests and     *)
(* runs interleave exactly where the event loop lets them.                 *)
(***************************************************************************)
EXTENDS Integers, Sequences, FiniteSets, TLC

\* ------------------------------------------------------------------ bounds
MaxStarts == 2        \* start requests issued (each may launch one run)
MaxChapters == 2      \* largest target_chapters of a stored project
NumCharacters == 1    \* len(project.characters)
MaxFaultStarts == 1   \* start requests issued while the store may fail
MaxClock == 2         \* ticks of the wall clock while progress is reported

\* --------------------------------------------------------------- constants
Projects == {"p1", "p2"}
Starts == 1..MaxStarts
None == "None"

\* _initialize_agent_tracking's list, in its order
Agents == <<"WorldbuildingAgent", "CharacterAgent", "PlotAgent",
            "StoryGeneratorAgent", "SequentialCheckerAgent", "DocumentFormatter">>
AgentNames == {Agents[k] : k \in 1..Len(Agents)}

\* AgentStatusEnum
AgentStatusEnum == {"pending", "running", "completed", "error"}

\* A percentage is the exact rational n/d, kept as <<n, d>> with d > 0.
Pct(n) == <<n, 1>>
Frac(n, d) == <<n, d>>
FracAdd(a, b) == <<a[1] * b[2] + b[1] * a[2], a[2] * b[2]>>
FracLeq(a, b) == a[1] * b[2] <= b[1] * a[2]
FracEq(a, b) == a[1] * b[2] = b[1] * a[2]

\* ------------------------------------------------------------------- texts
\* A text is the sequence of its whitespace-delimited tokens.
Draft == <<"once", "upon">>            \* body of a generated chapter
Revised == <<"rewritten">>             \* REVISED_CONTENT of a checker verdict
NoText == <<>>

\* len(content.split())
WordCount(content) == Len(content)

\* A line of a reply is the sequence of its characters.
ChapterWord == <<"C", "h", "a", "p", "t", "e", "r">>
\* the first line of the reply to a prose call, where no other is chosen
StormLine == <<"#", " ", "T", "h", "e", " ", "S", "t", "o", "r", "m">>

Digit(d) == <<"0", "1", "2", "3", "4", "5", "6", "7", "8", "9">>[d + 1]

\* str(n)
RECURSIVE Str(_)
Str(n) == IF n < 10 THEN <<Digit(n)>> ELSE Str(n \div 10) \o <<Digit(n % 10)>>

\* s.replace(old, ''): the occurrences of old, found from the left and not
\* overlapping, are removed
RECURSIVE Remove(_, _)
Remove(s, old) ==
    IF Len(s) < Len(old) THEN s
    ELSE IF SubSeq(s, 1, Len(old)) = old
         THEN Remove(SubSeq(s, Len(old) + 1, Len(s)), old)
         ELSE <<s[1]>> \o Remove(Tail(s), old)

\* s.strip()
RECURSIVE Strip(_)
Strip(s) ==
    IF s = <<>> THEN s
    ELSE IF s[1] = " " THEN Strip(Tail(s))
    ELSE IF s[Len(s)] = " " THEN Strip(SubSeq(s, 1, Len(s) - 1))
    ELSE s

\* mutant: the title is not stripped after the replacements
extract_title_NoFinalStrip(line, n) ==
    LET title == Remove(Remove(Remove(Remove(Strip(line), <<"#">>),
                                      ChapterWord), Str(n)), <<":">>)
    IN IF title = <<>> THEN ChapterWord \o <<" ">> \o Str(n) ELSE title

\* title = lines[0].strip().replace('#', '').replace('Chapter', '')
\*            .replace(str(chapter_num), '').replace(':', '').strip()
\* if not title: title = f"Chapter {chapter_num}"
extract_title(line, n) ==
    LET title == Strip(Remove(Remove(Remove(Remove(Strip(line), <<"#">>),
                                            ChapterWord), Str(n)), <<":">>))
    IN IF title = <<>> THEN ChapterWord \o <<" ">> \o Str(n) ELSE title

\* ChapterContent(chapter_number, title, content, word_count) with the
\* defaults of models.py for the verification fields
ChapterContent(n, title, content, wc) ==
    [chapter_number |-> n, title |-> title, content |-> content,
     word_count |-> wc, sequential_check_passed |-> FALSE,
     issues_found |-> <<>>, issues_fixed |-> <<>>]

NoChapter == ChapterContent(0, None, NoText, 0)

\* sum(chapter.word_count for chapter in chapters)
RECURSIVE SumWords(_)
SumWords(chs) ==
    IF chs = <<>> THEN 0 ELSE chs[1].word_count + SumWords(Tail(chs))

\* ------------------------------------------------------------------- store
\* datetime values are ticks of the wall clock; NoTime is a field that was
\* never written
NoTime == -1

\* target_words_per_chapter: int = 2000
TargetWordsDefault == 2000

\* A document of story_projects (the fields the pipeline reads or writes).
StoryProject(n) ==
    [exists |-> TRUE, target_chapters |-> n, characters |-> NumCharacters,
     target_words_per_chapter |-> TargetWordsDefault,
     current_status |-> "pending", current_agent |-> None,
     progress_percentage |-> Pct(0), chapters |-> <<>>,
     total_word_count |-> 0, updated_at |-> 0, well_formed |-> TRUE]

NoProject ==
    [exists |-> FALSE, target_chapters |-> 0, characters |-> 0,
     target_words_per_chapter |-> 0,
     current_status |-> None, current_agent |-> None,
     progress_percentage |-> Pct(0), chapters |-> <<>>,
     total_word_count |-> 0, updated_at |-> NoTime, well_formed |-> TRUE]

\* A row of agent_progress, keyed by (project_id, agent_name).
NoRow ==
    [exists |-> FALSE, status |-> None, progress_percentage |-> Pct(0),
     current_task |-> None, error_message |-> None, updated_at |-> NoTime]

VARIABLES
    projects,         \* db.story_projects: project id -> document
    agent_progress,   \* db.agent_progress: <<project id, agent>> -> row
    artifact,         \* project id -> the rendered .docx file exists
    reqs,             \* start request -> its position and outcome
    runs,             \* background task -> the state of its coroutine
    clock             \* datetime.utcnow()

vars == <<projects, agent_progress, artifact, reqs, runs, clock>>

\* What start_story_generation reads of the document find_one returned.
Seen(doc) == [exists |-> doc.exists, current_status |-> doc.current_status]

NoReq ==
    [pc |-> "new", project |-> "p1", seen |-> Seen(NoProject), code |-> 0,
     detail |-> None]

\* create_kdp_document's filepath: the directory of the generated books and
\* the file named after the project
NoPath == <<>>
DocumentPath(p) == <<"generated_books", p>>

MaxTokensCap == 4000

\* max_tokens=min(4000, target_words // 100 * 150)
max_tokens(target_words) ==
    LET budget == (target_words \div 100) * 150
    IN IF MaxTokensCap < budget THEN MaxTokensCap ELSE budget

NoRun ==
    [pc |-> "idle", half |-> FALSE, project |-> "p1", chapter_count |-> 0,
     characters |-> 0, loaded_chapters |-> 0, i |-> 0, chapter_num |-> 0,
     chapters |-> <<>>, chapter |-> NoChapter, document_path |-> NoPath,
     first_line |-> StormLine, target_words |-> TargetWordsDefault,
     exc |-> None]

\* A stored document that StoryProject(**project_doc) rejects: the update
\* endpoint $sets whatever target_chapters the request carried.
Malformed(doc) == [doc EXCEPT !.well_formed = FALSE]

\* Spec and SpecFault observe the pipeline within one tick of the clock: no
\* property checked under them reads updated_at.
Init ==
    /\ \E n \in 1..MaxChapters, ok \in BOOLEAN :
          projects = [p \in Projects |->
                         IF p # "p1" THEN NoProject
                         ELSE IF ok THEN StoryProject(n)
                              ELSE Malformed(StoryProject(n))]
    /\ clock = 0
    /\ agent_progress = [k \in Projects \X AgentNames |-> NoRow]
    /\ artifact = [p \in Projects |-> FALSE]
    /\ reqs = [q \in Starts |-> NoReq]
    /\ runs = [r \in Starts |-> NoRun]

\* ------------------------------------------------------- store operations
\* mutant: the upsert adds the percentage to the stored one ($inc) instead
\* of setting it
AgentProgressUpsert_Inc(ap, p, agent, status, progress, task, error) ==
    [ap EXCEPT ![<<p, agent>>] =
        [exists |-> TRUE, status |-> status,
         progress_percentage |-> FracAdd(@.progress_percentage, progress),
         current_task |-> task, error_message |-> error,
         updated_at |-> clock]]

\* agent_progress.update_one({project_id, agent_name}, {"$set": {status,
\* progress_percentage, current_task, error_message}}, upsert=True)
AgentProgressUpsert(ap, p, agent, status, progress, task, error) ==
    [ap EXCEPT ![<<p, agent>>] =
        [exists |-> TRUE, status |-> status, progress_percentage |-> progress,
         current_task |-> task, error_message |-> error,
         updated_at |-> clock]]

\* _initialize_agent_tracking's upsert: its $set has created_at and no
\* updated_at, which keeps the value an earlier report wrote
AgentProgressInit(ap, p, agent) ==
    [ap EXCEPT ![<<p, agent>>] =
        [exists |-> TRUE, status |-> "pending", progress_percentage |-> Pct(0),
         current_task |-> None, error_message |-> None,
         updated_at |-> @.updated_at]]

\* story_projects.update_one({"id": p}, {"$set": {current_agent,
\* progress_percentage, current_status}}): no upsert, so a missing document
\* is left missing
ProjectProgressSet(ps, p, agent, status, progress) ==
    [ps EXCEPT ![p] =
        IF @.exists
        THEN [@ EXCEPT !.current_agent = agent,
                       !.progress_percentage = progress,
                       !.current_status = status,
                       !.updated_at = clock]
        ELSE @]

\* mutant: the commit replaces the stored list by the new chapter ($set where
\* the code has $push)
ProjectPushChapter_SetNotPush(ps, p, ch) ==
    [ps EXCEPT ![p] =
        IF @.exists
        THEN [@ EXCEPT !.chapters = <<ch>>,
                       !.total_word_count = @ + ch.word_count]
        ELSE @]

\* mutant: the $push is not filtered by the project id and reaches every
\* stored project
ProjectPushChapter_Unkeyed(ps, p, ch) ==
    [o \in DOMAIN ps |->
        IF ps[o].exists
        THEN [ps[o] EXCEPT !.chapters = Append(@, ch),
                           !.total_word_count = @ + ch.word_count]
        ELSE ps[o]]

\* story_projects.update_one({"id": p}, {"$push": {"chapters": ch},
\* "$inc": {"total_word_count": ch.word_count}})
ProjectPushChapter(ps, p, ch) ==
    [ps EXCEPT ![p] =
        IF @.exists
        THEN [@ EXCEPT !.chapters = Append(@, ch),
                       !.total_word_count = @ + ch.word_count]
        ELSE @]

\* the final update of orchestrate_story_generation
ProjectSetCompleted(ps, p, total_words) ==
    [ps EXCEPT ![p] =
        IF @.exists
        THEN [@ EXCEPT !.current_status = "completed",
                       !.progress_percentage = Pct(100),
                       !.total_word_count = total_words,
                       !.updated_at = clock]
        ELSE @]

\* mutant: the except clause re-raises without recording the status
ProjectSetError_Skipped(ps, p) == ps

\* the update of orchestrate_story_generation's except clause
ProjectSetError(ps, p) ==
    [ps EXCEPT ![p] =
        IF @.exists
        THEN [@ EXCEPT !.current_status = "error", !.updated_at = clock]
        ELSE @]

\* ------------------------------------------------------ the start endpoint
\* start_story_generation up to its only await: the find_one of the project
start_find(q) ==
    /\ reqs[q].pc = "new"
    /\ \E p \in Projects :
          reqs' = [reqs EXCEPT ![q] =
                      [@ EXCEPT !.pc = "read", !.project = p,
                                !.seen = Seen(projects[p])]]
    /\ UNCHANGED <<clock, projects, agent_progress, artifact, runs>>

\* mutant: the guard without its check of current_status
StartRejected_NoStatusCheck(doc) ==
    IF ~doc.exists THEN "404: Project not found" ELSE None

\* the guard of start_story_generation on the document it read
StartRejected(doc) ==
    IF ~doc.exists THEN "404: Project not found"
    ELSE IF doc.current_status = "running"
         THEN "400: Generation already in progress"
         ELSE None

\* start_story_generation after the find_one returned: both HTTPExceptions
\* are raised inside the try, so `except Exception` turns them into a 500
start_decide(q) ==
    /\ reqs[q].pc = "read"
    /\ LET why == StartRejected(reqs[q].seen) IN
       IF why # None
       THEN /\ reqs' = [reqs EXCEPT ![q] =
                           [@ EXCEPT !.pc = "done", !.code = 500,
                                     !.detail = why,
                                     !.seen = Seen(NoProject)]]
            /\ UNCHANGED runs
       ELSE /\ reqs' = [reqs EXCEPT ![q] =
                           [@ EXCEPT !.pc = "done", !.code = 200,
                                     !.seen = Seen(NoProject)]]
            /\ runs' = [runs EXCEPT ![q] =
                           [@ EXCEPT !.pc = "load",
                                     !.project = reqs[q].project]]
    /\ UNCHANGED <<clock, projects, agent_progress, artifact>>

\* ------------------------------------------------------------ progress
\* BaseAgent.update_progress called by run r at its current pc: the upsert
\* of the agent's row, then (a second await) the update of the project
\* document; `nxt` is the run once the call has returned.
update_progress(r, agent, status, progress, task, error, nxt) ==
    LET p == runs[r].project IN
    IF ~runs[r].half
    THEN /\ agent_progress' =
               AgentProgressUpsert(agent_progress, p, agent, status, progress,
                                   task, error)
         /\ runs' = [runs EXCEPT ![r].half = TRUE]
         /\ UNCHANGED <<clock, projects, artifact, reqs>>
    ELSE /\ projects' = ProjectProgressSet(projects, p, agent, status, progress)
         /\ runs' = [runs EXCEPT ![r] = [nxt EXCEPT !.half = FALSE]]
         /\ UNCHANGED <<clock, agent_progress, artifact, reqs>>

\* DocumentFormatter.update_progress: the row only, and no error_message
\* in its $set
formatter_update_progress(r, status, progress, task, nxt) ==
    LET p == runs[r].project
        k == <<p, "DocumentFormatter">> IN
    /\ agent_progress' =
          [agent_progress EXCEPT ![k] =
              [@ EXCEPT !.exists = TRUE, !.status = status,
                        !.progress_percentage = progress,
                        !.current_task = task, !.updated_at = clock]]
    /\ runs' = [runs EXCEPT ![r] = nxt]
    /\ UNCHANGED <<clock, projects, artifact, reqs>>

At(r, pc) == runs[r].pc = pc

\* The coroutine has ended: its locals are gone, what is left is how it
\* ended and, when it raised, the exception it raised.
Ended(r, how) ==
    [NoRun EXCEPT !.pc = how, !.project = runs[r].project,
                  !.exc = runs[r].exc]
\* mutant: an agent's except clause reports the error and does not re-raise,
\* so the orchestrator goes on with the next stage
Goto_ErrorSwallowed(r, pc) ==
    [runs[r] EXCEPT !.pc = IF pc # "handler" THEN pc
                           ELSE IF runs[r].pc = "world_err" THEN "char_p10"
                           ELSE IF runs[r].pc = "char_err" THEN "plot_p10"
                           ELSE "story_p100"]

Goto(r, pc) == [runs[r] EXCEPT !.pc = pc]

\* --------------------------------------------- orchestrate_story_generation
\* find_one and StoryProject(**project_doc)
orchestrate_load(r) ==
    /\ At(r, "load")
    /\ LET doc == projects[runs[r].project] IN
       runs' = [runs EXCEPT ![r] =
                   IF ~doc.exists
                   THEN [@ EXCEPT !.pc = "handler",
                                  !.exc = "Project not found"]
                   ELSE IF ~doc.well_formed
                   THEN [@ EXCEPT !.pc = "handler",
                                  !.exc = "validation error"]
                   ELSE [@ EXCEPT !.pc = "init", !.i = 1,
                                  !.chapter_count = doc.target_chapters,
                                  !.characters = doc.characters,
                                  !.target_words =
                                      doc.target_words_per_chapter,
                                  !.loaded_chapters = Len(doc.chapters)]]
    /\ UNCHANGED <<clock, projects, agent_progress, artifact, reqs>>

\* _initialize_agent_tracking: one upsert per agent name, in order
initialize_agent_tracking(r) ==
    /\ At(r, "init")
    /\ LET i == runs[r].i IN
       /\ agent_progress' =
             AgentProgressInit(agent_progress, runs[r].project, Agents[i])
       /\ runs' = [runs EXCEPT ![r] =
                      IF i < Len(Agents) THEN [@ EXCEPT !.i = i + 1]
                      ELSE [@ EXCEPT !.pc = "world_p10", !.i = 0]]
    /\ UNCHANGED <<clock, projects, artifact, reqs>>

\* WorldbuildingAgent.process
WorldbuildingAgent_process(r) ==
    LET a == "WorldbuildingAgent" IN
    \/ /\ At(r, "world_p10")
       /\ update_progress(r, a, "running", Pct(10),
                          "Analyzing worldbuilding context", None,
                          Goto(r, "world_p50"))
    \/ /\ At(r, "world_p50")
       /\ update_progress(r, a, "running", Pct(50), "Generating world bible",
                          None, Goto(r, "world_call"))
    \/ /\ At(r, "world_call")
       /\ \E ok \in BOOLEAN :
             runs' = [runs EXCEPT ![r] =
                         IF ok THEN [@ EXCEPT !.pc = "world_p100"]
                         ELSE [@ EXCEPT !.pc = "world_err",
                                        !.exc = "service error"]]
       /\ UNCHANGED <<clock, projects, agent_progress, artifact, reqs>>
    \/ /\ At(r, "world_p100")
       /\ update_progress(r, a, "completed", Pct(100), "World bible completed",
                          None, Goto(r, "char_p10"))
    \/ /\ At(r, "world_err")
       /\ update_progress(r, a, "error", Pct(0), None, runs[r].exc,
                          Goto(r, "handler"))

\* CharacterAgent.process
CharacterAgent_process(r) ==
    LET a == "CharacterAgent"
        n == runs[r].characters
        i == runs[r].i IN
    \/ /\ At(r, "char_p10")
       /\ update_progress(r, a, "running", Pct(10), "Analyzing character data",
                          None,
                          [runs[r] EXCEPT
                              !.pc = IF n = 0 THEN "char_p100" ELSE "char_loop",
                              !.i = 0])
    \/ /\ At(r, "char_loop")
       /\ update_progress(r, a, "running",
                          FracAdd(Pct(10), Frac(i * 80, n)),
                          "Processing character", None, Goto(r, "char_call"))
    \/ /\ At(r, "char_call")
       /\ \E ok \in BOOLEAN :
             runs' = [runs EXCEPT ![r] =
                         IF ~ok THEN [@ EXCEPT !.pc = "char_err",
                                               !.exc = "service error"]
                         ELSE IF i + 1 < n
                              THEN [@ EXCEPT !.pc = "char_loop", !.i = i + 1]
                              ELSE [@ EXCEPT !.pc = "char_p100"]]
       /\ UNCHANGED <<clock, projects, agent_progress, artifact, reqs>>
    \/ /\ At(r, "char_p100")
       /\ update_progress(r, a, "completed", Pct(100),
                          "Character profiles completed", None,
                          Goto(r, "plot_p10"))
    \/ /\ At(r, "char_err")
       /\ update_progress(r, a, "error", Pct(0), None, runs[r].exc,
                          Goto(r, "handler"))

\* PlotAgent.process; its chapter_count is the target_chapters it was given
PlotAgent_process(r) ==
    LET a == "PlotAgent" IN
    \/ /\ At(r, "plot_p10")
       /\ update_progress(r, a, "running", Pct(10), "Analyzing plot elements",
                          None, Goto(r, "plot_p50"))
    \/ /\ At(r, "plot_p50")
       /\ update_progress(r, a, "running", Pct(50),
                          "Generating plot structure", None,
                          Goto(r, "plot_call"))
    \/ /\ At(r, "plot_call")
       /\ \E ok \in BOOLEAN :
             runs' = [runs EXCEPT ![r] =
                         IF ok THEN [@ EXCEPT !.pc = "plot_p100"]
                         ELSE [@ EXCEPT !.pc = "plot_err",
                                        !.exc = "service error"]]
       /\ UNCHANGED <<clock, projects, agent_progress, artifact, reqs>>
    \/ /\ At(r, "plot_p100")
       /\ update_progress(r, a, "completed", Pct(100),
                          "Plot structure completed", None,
                          [runs[r] EXCEPT
                              !.pc = IF runs[r].chapter_count >= 1
                                     THEN "story_progress" ELSE "story_p100",
                              !.chapter_num = 1, !.chapters = <<>>])
    \/ /\ At(r, "plot_err")
       /\ update_progress(r, a, "error", Pct(0), None, runs[r].exc,
                          Goto(r, "handler"))

\* ------------------------------------------------------- the chapter loop
\* _generate_single_chapter once the text-generation call has returned:
\* title and body are split off the response and the body's words counted
GeneratedChapter(n, title, content) ==
    ChapterContent(n, title, content, WordCount(content))

\* What the checker's response holds for the parser: whether the word
\* APPROVED occurs in it, the non-blank lines of its ISSUES_FOUND and
\* FIXES_NEEDED sections, and the text after REVISED_CONTENT.
CheckerResponses ==
    { [approved |-> TRUE, issues |-> <<>>, fixes |-> <<>>, revised |-> NoText],
      [approved |-> TRUE, issues |-> <<"timeline gap">>,
       fixes |-> <<"fix timeline">>, revised |-> Revised],
      [approved |-> FALSE, issues |-> <<"timeline gap">>,
       fixes |-> <<"fix timeline">>, revised |-> Revised],
      [approved |-> FALSE, issues |-> <<"timeline gap">>, fixes |-> <<>>,
       revised |-> NoText],
      [approved |-> FALSE, issues |-> <<"None">>, fixes |-> <<>>,
       revised |-> NoText] }

\* mutant: the lines reading "none" are kept as issues
ExtractIssues_KeepsNone(resp) == resp.issues

\* _extract_issues: the lines of the section that are not "none"
ExtractIssues(resp) == SelectSeq(resp.issues, LAMBDA l : l \notin {"None", "none"})

\* mutant: a chapter the checker rewrote counts as passed
CheckedChapter_PassedWhenRevised(ch, resp) ==
    IF resp.approved
    THEN [ch EXCEPT !.sequential_check_passed = TRUE,
                    !.issues_found = <<>>, !.issues_fixed = <<>>]
    ELSE LET issues == ExtractIssues(resp)
             c == IF resp.revised # NoText
                  THEN [ch EXCEPT !.content = resp.revised,
                                  !.word_count = WordCount(resp.revised)]
                  ELSE ch
         IN [c EXCEPT !.sequential_check_passed =
                         (Len(issues) = 0 \/ resp.revised # NoText),
                      !.issues_found = issues, !.issues_fixed = resp.fixes]

\* mutant: the revised text replaces the content and the word count of the
\* draft is kept
CheckedChapter_StaleWordCount(ch, resp) ==
    IF resp.approved
    THEN [ch EXCEPT !.sequential_check_passed = TRUE,
                    !.issues_found = <<>>, !.issues_fixed = <<>>]
    ELSE LET issues == ExtractIssues(resp)
             c == IF resp.revised # NoText
                  THEN [ch EXCEPT !.content = resp.revised]
                  ELSE ch
         IN [c EXCEPT !.sequential_check_passed = (Len(issues) = 0),
                      !.issues_found = issues, !.issues_fixed = resp.fixes]

\* mutant: the revised text of a response is applied whatever the verdict
CheckedChapter_RevisionAlwaysApplied(ch, resp) ==
    LET c == IF resp.revised # NoText
             THEN [ch EXCEPT !.content = resp.revised,
                             !.word_count = WordCount(resp.revised)]
             ELSE ch
    IN IF resp.approved
       THEN [c EXCEPT !.sequential_check_passed = TRUE,
                      !.issues_found = <<>>, !.issues_fixed = <<>>]
       ELSE LET issues == ExtractIssues(resp)
            IN [c EXCEPT !.sequential_check_passed = (Len(issues) = 0),
                         !.issues_found = issues, !.issues_fixed = resp.fixes]

\* check_and_fix_chapter's parse of a response that was received
CheckedChapter(ch, resp) ==
    IF resp.approved
    THEN [ch EXCEPT !.sequential_check_passed = TRUE,
                    !.issues_found = <<>>, !.issues_fixed = <<>>]
    ELSE LET issues == ExtractIssues(resp)
             c == IF resp.revised # NoText
                  THEN [ch EXCEPT !.content = resp.revised,
                                  !.word_count = WordCount(resp.revised)]
                  ELSE ch
         IN [c EXCEPT !.sequential_check_passed = (Len(issues) = 0),
                      !.issues_found = issues, !.issues_fixed = resp.fixes]

CheckerError == "Checker error: service error"

\* mutant: the except clause records the failure and leaves the chapter
\* not passed
CheckerFailedChapter_NotPassed(ch) ==
    [ch EXCEPT !.issues_found = <<CheckerError>>]

\* check_and_fix_chapter's except clause
CheckerFailedChapter(ch) ==
    [ch EXCEPT !.sequential_check_passed = TRUE,
               !.issues_found = <<CheckerError>>]

\* progress = (chapter_num / chapter_count) * 85
StoryProgress(n, count) == Frac(n * 85, count)

\* SequentialCheckerAgent's progress: chapter.chapter_number * 10
CheckerProgress(n) == Pct(n * 10)

\* the text-generation call of _generate_single_chapter raises: nothing in
\* _generate_and_check_story catches it
story_call_raises(r) ==
    /\ At(r, "story_call")
    /\ runs' = [runs EXCEPT ![r] =
                   [@ EXCEPT !.pc = "handler", !.exc = "service error"]]
    /\ UNCHANGED <<clock, projects, agent_progress, artifact, reqs>>

story_call_returns(r) ==
    /\ At(r, "story_call")
    /\ runs' = [runs EXCEPT ![r] =
                   [@ EXCEPT !.pc = "check_progress",
                             !.chapter = GeneratedChapter(
                                             runs[r].chapter_num,
                                             extract_title(
                                                 runs[r].first_line,
                                                 runs[r].chapter_num),
                                             Draft)]]
    /\ UNCHANGED <<clock, projects, agent_progress, artifact, reqs>>

\* the call of check_and_fix_chapter raises (or its response has no
\* content): the except clause returns the chapter, which the loop appends
check_call_raises(r) ==
    /\ At(r, "check_call")
    /\ LET ch == CheckerFailedChapter(runs[r].chapter) IN
       runs' = [runs EXCEPT ![r] =
                   [@ EXCEPT !.pc = "commit", !.chapter = ch,
                             !.chapters = Append(@, ch)]]
    /\ UNCHANGED <<clock, projects, agent_progress, artifact, reqs>>

check_call_returns(r) ==
    /\ At(r, "check_call")
    /\ \E resp \in CheckerResponses :
          LET ch == CheckedChapter(runs[r].chapter, resp) IN
          runs' = [runs EXCEPT ![r] =
                      [@ EXCEPT !.pc = "commit", !.chapter = ch,
                                !.chapters = Append(@, ch)]]
    /\ UNCHANGED <<clock, projects, agent_progress, artifact, reqs>>

\* mutant: the loop goes on to the next chapter without the store update
commit_chapter_Deferred(r) ==
    /\ At(r, "commit")
    /\ runs' = [runs EXCEPT ![r] =
                   IF @.chapter_num < @.chapter_count
                   THEN [@ EXCEPT !.pc = "story_progress",
                                  !.chapter_num = @ + 1]
                   ELSE [@ EXCEPT !.pc = "story_p100"]]
    /\ UNCHANGED <<clock, projects, agent_progress, artifact, reqs>>

\* the $push/$inc of the checked chapter, and the loop's next iteration
commit_chapter(r) ==
    /\ At(r, "commit")
    /\ projects' = ProjectPushChapter(projects, runs[r].project, runs[r].chapter)
    /\ runs' = [runs EXCEPT ![r] =
                   IF @.chapter_num < @.chapter_count
                   THEN [@ EXCEPT !.pc = "story_progress",
                                  !.chapter_num = @ + 1]
                   ELSE [@ EXCEPT !.pc = "story_p100"]]
    /\ UNCHANGED <<clock, agent_progress, artifact, reqs>>

\* _generate_and_check_story
generate_and_check_story(r) ==
    \/ /\ At(r, "story_progress")
       /\ update_progress(r, "StoryGeneratorAgent", "running",
                          StoryProgress(runs[r].chapter_num,
                                        runs[r].chapter_count),
                          "Writing Chapter", None, Goto(r, "story_call"))
    \/ story_call_raises(r)
    \/ story_call_returns(r)
    \/ /\ At(r, "check_progress")
       /\ update_progress(r, "SequentialCheckerAgent", "running",
                          CheckerProgress(runs[r].chapter.chapter_number),
                          "Checking Chapter", None, Goto(r, "check_call"))
    \/ check_call_raises(r)
    \/ check_call_returns(r)
    \/ commit_chapter(r)
    \/ /\ At(r, "story_p100")
       /\ update_progress(r, "StoryGeneratorAgent", "completed", Pct(100),
                          "All chapters completed", None, Goto(r, "fmt_p50"))

\* _format_final_document; create_kdp_document saves the file or raises
format_final_document(r) ==
    \/ /\ At(r, "fmt_p50")
       /\ formatter_update_progress(r, "running", Pct(50),
                                    "Formatting document for KDP",
                                    Goto(r, "fmt_create"))
    \/ /\ At(r, "fmt_create")
       /\ \E ok \in BOOLEAN :
             IF ok
             THEN /\ artifact' = [artifact EXCEPT ![runs[r].project] = TRUE]
                  /\ runs' = [runs EXCEPT ![r] =
                                 [@ EXCEPT !.pc = "fmt_p100",
                                           !.document_path =
                                               DocumentPath(runs[r].project)]]
             ELSE /\ runs' = [runs EXCEPT ![r] =
                                 [@ EXCEPT !.pc = "handler",
                                           !.exc = "cannot save document"]]
                  /\ UNCHANGED artifact
       /\ UNCHANGED <<clock, projects, agent_progress, reqs>>
    \/ /\ At(r, "fmt_p100")
       /\ formatter_update_progress(r, "completed", Pct(100),
                                    "Document formatting completed",
                                    Goto(r, "final"))

\* the final update of the try block, then the return
orchestrate_final(r) ==
    /\ At(r, "final")
    /\ projects' = ProjectSetCompleted(projects, runs[r].project,
                                       SumWords(runs[r].chapters))
    /\ runs' = [runs EXCEPT ![r] = Ended(r, "returned")]
    /\ UNCHANGED <<clock, agent_progress, artifact, reqs>>

\* the except clause: the status update, then the re-raise
orchestrate_except(r) ==
    /\ At(r, "handler")
    /\ projects' = ProjectSetError(projects, runs[r].project)
    /\ runs' = [runs EXCEPT ![r] = Ended(r, "raised")]
    /\ UNCHANGED <<clock, agent_progress, artifact, reqs>>

\* one step of background task r
orchestrate_story_generation(r) ==
    \/ orchestrate_load(r)
    \/ initialize_agent_tracking(r)
    \/ WorldbuildingAgent_process(r)
    \/ CharacterAgent_process(r)
    \/ PlotAgent_process(r)
    \/ generate_and_check_story(r)
    \/ format_final_document(r)
    \/ orchestrate_final(r)
    \/ orchestrate_except(r)

Next ==
    \/ \E q \in Starts : start_find(q)
    \/ \E q \in Starts : start_decide(q)
    \/ \E r \in Starts : orchestrate_story_generation(r)

Spec == Init /\ [][Next]_vars

\* --------------------------------------------------------- store failures
\* The pcs at which the run's next operation is a store operation.
StoreOpPcs ==
    {"load", "init", "world_p10", "world_p50", "world_p100", "world_err",
     "char_p10", "char_loop", "char_p100", "char_err", "plot_p10", "plot_p50",
     "plot_p100", "plot_err", "story_progress", "check_progress", "commit",
     "story_p100", "fmt_p50", "fmt_p100", "final", "handler"}

\* Where an exception raised by the store operation at pc is caught: the
\* except clause of the agent whose try block holds the call, else the
\* except clause of orchestrate_story_generation; out of that clause it
\* leaves the coroutine.
StoreFaultTarget(pc) ==
    CASE pc \in {"world_p50", "world_p100"} -> "world_err"
      [] pc \in {"char_loop", "char_p100"} -> "char_err"
      [] pc \in {"plot_p50", "plot_p100"} -> "plot_err"
      [] pc = "handler" -> "raised"
      [] OTHER -> "handler"

\* the store operation run r is about to perform raises
store_fault(r) ==
    /\ runs[r].pc \in StoreOpPcs
    /\ runs' = [runs EXCEPT ![r] =
                   IF runs[r].pc = "handler"
                   THEN [Ended(r, "raised") EXCEPT !.exc = "store error"]
                   ELSE [@ EXCEPT !.pc = StoreFaultTarget(runs[r].pc),
                                  !.half = FALSE, !.exc = "store error"]]
    /\ UNCHANGED <<clock, projects, agent_progress, artifact, reqs>>

\* the find_one of start_story_generation raises: `except Exception`
start_find_fault(q) ==
    /\ reqs[q].pc = "new"
    /\ \E p \in Projects :
          reqs' = [reqs EXCEPT ![q] =
                      [@ EXCEPT !.pc = "done", !.project = p, !.code = 500,
                                !.detail = "store error"]]
    /\ UNCHANGED <<clock, projects, agent_progress, artifact, runs>>

FaultStarts == 1..MaxFaultStarts

NextFault ==
    \/ \E q \in FaultStarts : start_find(q)
    \/ \E q \in FaultStarts : start_decide(q)
    \/ \E r \in FaultStarts : orchestrate_story_generation(r)
    \/ \E r \in FaultStarts : store_fault(r)
    \/ \E q \in FaultStarts : start_find_fault(q)

\* the pipeline over a store whose operations may fail
SpecFault == Init /\ [][NextFault]_vars

\* ------------------------------------------------------------------ claims
Active(r) == runs[r].pc \notin {"idle", "returned", "raised"}
Quiescent == \A r \in Starts : ~Active(r) /\ reqs[r].pc # "read"

\* chs is exactly the chapters 1..n, in order
Numbered(chs, n) ==
    /\ Len(chs) = n
    /\ \A k \in 1..Len(chs) : chs[k].chapter_number = k

\* C1: a run that returns successfully leaves the project with exactly its N
\* target chapters, numbered 1..N in order, and a total_word_count that is
\* the sum of their word counts.
C1_SuccessfulRunLeavesNChapters ==
    [][\A r \in Starts :
          orchestrate_final(r) =>
             LET d == projects'[runs[r].project] IN
             /\ Numbered(d.chapters, runs[r].chapter_count)
             /\ d.total_word_count = SumWords(d.chapters)]_vars

\* C2: whenever no run is in progress, whatever runs came before, the stored
\* chapter numbers are 1..n without gap or duplicate and the stored total is
\* the sum of the stored chapters' word counts.
C2_StoredChaptersContiguous ==
    Quiescent =>
       \A p \in Projects :
          /\ Numbered(projects[p].chapters, Len(projects[p].chapters))
          /\ projects[p].total_word_count = SumWords(projects[p].chapters)

\* C3: no two runs of the same project are in progress at the same time.
C3_NoOverlappingRuns ==
    \A r1, r2 \in Starts :
       (r1 # r2 /\ Active(r1) /\ Active(r2)) =>
          runs[r1].project # runs[r2].project

\* C4: a start request that finds the project `running` is rejected: no run
\* is scheduled, and neither step of a request writes to the store.
C4_RunningStartRejected ==
    [][\A q \in Starts :
          /\ (start_find(q) \/ start_decide(q)) =>
                (projects' = projects /\ agent_progress' = agent_progress)
          /\ (start_decide(q) /\ reqs[q].seen.exists
                /\ reqs[q].seen.current_status = "running") =>
                (runs' = runs /\ reqs'[q].code # 200)]_vars

C4_Witness ==
    \E q \in Starts :
       /\ reqs[q].detail = "400: Generation already in progress"
       /\ runs[q].pc = "idle"
       /\ \E r \in Starts : Active(r)

StatusMachine ==
    {<<"pending", "running">>, <<"running", "completed">>,
     <<"running", "error">>}

\* C5: every change a run makes to the project's status is one of
\* pending -> running, running -> completed, running -> error.
C5_StatusStateMachine ==
    [][\A r \in Starts :
          LET p == runs[r].project IN
          (orchestrate_story_generation(r)
             /\ projects'[p].current_status # projects[p].current_status) =>
             <<projects[p].current_status, projects'[p].current_status>>
                \in StatusMachine]_vars

\* C6: a project whose stored status is `completed` holds every target
\* chapter 1..N, each checked.
C6_CompletedHasAllChapters ==
    \A p \in Projects :
       (projects[p].exists /\ projects[p].current_status = "completed") =>
          \A n \in 1..projects[p].target_chapters :
             \E k \in 1..Len(projects[p].chapters) :
                projects[p].chapters[k].chapter_number = n

\* C7: no step of a run lowers the project's stored progress_percentage.
C7_ProgressMonotone ==
    [][\A r \in Starts :
          LET p == runs[r].project IN
          orchestrate_story_generation(r) =>
             FracLeq(projects[p].progress_percentage,
                     projects'[p].progress_percentage)]_vars

\* C8: when the verification call raises, the run goes on to the commit with
\* the chapter passed, its only issue the checker failure and its content
\* the generated draft; the commit stores that chapter and the loop moves on
\* to the next chapter.
C8_CheckerSoftFail ==
    [][\A r \in Starts :
          /\ check_call_raises(r) =>
                /\ runs'[r].pc = "commit"
                /\ runs'[r].chapter.sequential_check_passed
                /\ runs'[r].chapter.issues_found = <<CheckerError>>
                /\ runs'[r].chapter.content = runs[r].chapter.content
                /\ runs'[r].chapter.word_count = runs[r].chapter.word_count
                /\ runs'[r].chapter.chapter_number = runs[r].chapter_num
          /\ (commit_chapter(r)
                /\ runs[r].chapter.issues_found = <<CheckerError>>) =>
                LET chs == projects'[runs[r].project].chapters IN
                /\ Len(chs) = Len(projects[runs[r].project].chapters) + 1
                /\ chs[Len(chs)] = runs[r].chapter
                /\ chs[Len(chs)].sequential_check_passed
                /\ chs[Len(chs)].content = Draft
                /\ IF runs[r].chapter_num < runs[r].chapter_count
                   THEN /\ runs'[r].pc = "story_progress"
                        /\ runs'[r].chapter_num = runs[r].chapter_num + 1
                   ELSE runs'[r].pc = "story_p100"]_vars

C8_Witness ==
    \E r \in Starts :
       /\ runs[r].pc = "story_call"
       /\ runs[r].chapter_num = 2
       /\ Len(projects[runs[r].project].chapters) >= 1
       /\ projects[runs[r].project].chapters[1].issues_found = <<CheckerError>>
       /\ projects[runs[r].project].chapters[1].sequential_check_passed

\* the run is in the except clause because the prose call of chapter
\* chapter_num raised
ProseFailed(r) ==
    /\ runs[r].pc = "handler"
    /\ runs[r].chapter_num >= 1
    /\ Len(runs[r].chapters) = runs[r].chapter_num - 1

\* C9: when prose generation raises on chapter k in a run that found no
\* committed chapter, the run ends with the status `error` and the store
\* holding exactly the chapters 1..k-1 that the run committed.
C9_ProseFailureKeepsEarlierChapters ==
    [][\A r \in Starts :
          (orchestrate_except(r) /\ ProseFailed(r)
             /\ runs[r].loaded_chapters = 0) =>
             LET d == projects'[runs[r].project] IN
             /\ d.current_status = "error"
             /\ d.chapters = runs[r].chapters
             /\ Numbered(d.chapters, runs[r].chapter_num - 1)]_vars

ErrPcs == {"world_err", "char_err", "plot_err"}

Raises(r) ==
    \/ store_fault(r)
    \/ story_call_raises(r)
    \/ /\ runs[r].pc \in {"world_call", "char_call", "plot_call", "fmt_create"}
       /\ runs'[r].exc # None
       /\ runs'[r].pc \in ErrPcs \cup {"handler"}

FailingStage(pc) ==
    CASE pc = "world_err" -> "WorldbuildingAgent"
      [] pc = "char_err" -> "CharacterAgent"
      [] pc = "plot_err" -> "PlotAgent"
      [] OTHER -> "StoryGeneratorAgent"

\* C11: when the failure of a stage (world, character, plot or prose
\* generation) reaches the except clause of orchestrate_story_generation,
\* the failing stage's own row has the status `error` and an error message.
C11_FailedStageRowIsError ==
    [][\A r \in Starts :
          (orchestrate_story_generation(r)
             /\ runs[r].pc \in ErrPcs \cup {"story_call"}
             /\ runs'[r].pc = "handler") =>
             LET row == agent_progress'[<<runs[r].project,
                                         FailingStage(runs[r].pc)>>] IN
             /\ row.status = "error"
             /\ row.error_message # None]_vars

\* C12: when a run returns successfully the stored project has the status
\* `completed`, the progress 100, and holds the location of the rendered
\* document that the run got from create_kdp_document.
C12_SuccessRecordsArtifact ==
    [][\A r \in Starts :
          orchestrate_final(r) =>
             LET d == projects'[runs[r].project] IN
             /\ d.current_status = "completed"
             /\ FracEq(d.progress_percentage, Pct(100))
             /\ "document_path" \in DOMAIN d
             /\ d.document_path = runs[r].document_path]_vars

\* C13: when the checker's response is the no-issues verdict (it carries
\* APPROVED), the chapter the check returns is passed, has no issue and no
\* fix, and has the content and word count of the generated draft; the
\* commit stores that chapter as it is.
C13_ApprovedChapterIsDraft ==
    [][\A r \in Starts :
          /\ \A resp \in CheckerResponses :
                (check_call_returns(r) /\ resp.approved
                   /\ runs'[r].chapter = CheckedChapter(runs[r].chapter, resp)) =>
                   /\ runs'[r].pc = "commit"
                   /\ runs'[r].chapter.sequential_check_passed
                   /\ runs'[r].chapter.issues_found = <<>>
                   /\ runs'[r].chapter.issues_fixed = <<>>
                   /\ runs'[r].chapter.content = runs[r].chapter.content
                   /\ runs'[r].chapter.content = Draft
                   /\ runs'[r].chapter.word_count = WordCount(Draft)
          /\ commit_chapter(r) =>
                LET chs == projects'[runs[r].project].chapters IN
                /\ chs = Append(projects[runs[r].project].chapters,
                                runs[r].chapter)
                /\ projects'[runs[r].project].total_word_count =
                      projects[runs[r].project].total_word_count
                         + runs[r].chapter.word_count]_vars

C13_Witness ==
    \E r \in Starts :
       LET chs == projects[runs[r].project].chapters IN
       /\ runs[r].pc \in {"story_progress", "story_p100"}
       /\ Len(chs) = 1
       /\ chs[1].sequential_check_passed
       /\ chs[1].issues_found = <<>>
       /\ chs[1].issues_fixed = <<>>
       /\ chs[1].content = Draft
       /\ chs[1].word_count = WordCount(Draft)

\* the stage of orchestrate_story_generation that a pc belongs to: 0 the
\* load and the reset of the rows, 1 world, 2 character, 3 plot, 4 the
\* chapter loop, 5 rendering, 6 the final update
StageOf(pc) ==
    CASE pc \in {"load", "init"} -> 0
      [] pc \in {"world_p10", "world_p50", "world_call", "world_p100",
                 "world_err"} -> 1
      [] pc \in {"char_p10", "char_loop", "char_call", "char_p100",
                 "char_err"} -> 2
      [] pc \in {"plot_p10", "plot_p50", "plot_call", "plot_p100",
                 "plot_err"} -> 3
      [] pc \in {"story_progress", "story_call", "check_progress",
                 "check_call", "commit", "story_p100"} -> 4
      [] pc \in {"fmt_p50", "fmt_create", "fmt_p100"} -> 5
      [] pc = "final" -> 6
      [] OTHER -> 7

\* the pcs at which a stage has finished successfully and reports it
StageDonePcs == {"init", "world_p100", "char_p100", "plot_p100", "story_p100",
                 "fmt_p100"}

\* C14: a run goes through its stages in the order world, character, plot,
\* chapter loop, rendering, one stage at a time and only from the point at
\* which the stage before has finished successfully; the loop takes the
\* chapters 1..N in order; after a failure the run only reports it and
\* leaves through the except clause, and an ended run does nothing more.
C14_StagesInOrder ==
    [][\A r \in Starts :
          LET pc == runs[r].pc
              pc2 == runs'[r].pc IN
          (runs'[r] # runs[r] /\ pc # "idle") =>
             /\ pc \notin {"returned", "raised"}
             /\ pc2 \in {"handler", "raised", "returned"}
                   \/ StageOf(pc2) = StageOf(pc)
                   \/ (StageOf(pc2) = StageOf(pc) + 1 /\ pc \in StageDonePcs)
             /\ pc2 = "returned" => pc = "final"
             /\ pc \in ErrPcs => pc2 \in {pc, "handler"}
             /\ pc = "handler" => pc2 = "raised"
             /\ runs'[r].exc # None => pc2 \in ErrPcs \cup {"handler", "raised"}
             /\ (StageOf(pc) = 4 /\ StageOf(pc2) = 4) =>
                   /\ runs'[r].chapter_num \in
                         {runs[r].chapter_num, runs[r].chapter_num + 1}
                   /\ runs'[r].chapter_num = runs[r].chapter_num + 1 =>
                         (pc = "commit" /\ pc2 = "story_progress")
                   /\ Len(runs'[r].chapters) \in
                         {runs'[r].chapter_num - 1, runs'[r].chapter_num}
             /\ StageOf(pc2) = 5 =>
                   Numbered(runs'[r].chapters, runs[r].chapter_count)]_vars

C14_Witness ==
    \E r \in Starts :
       /\ runs[r].pc = "final"
       /\ runs[r].chapter_count = MaxChapters
       /\ Numbered(runs[r].chapters, MaxChapters)
       /\ runs[r].document_path # NoPath

\* get_project_progress on the store (ps, ap): the dict it returns.  Every
\* exception of its body is caught and returned as {"error": ...}, and a
\* missing project is returned the same way.
get_project_progress(ps, ap, p) ==
    IF ~ps[p].exists
    THEN [error |-> "Project not found", overall_status |-> None,
          overall_progress |-> Pct(0), current_agent |-> None,
          total_chapters |-> 0, total_words |-> 0,
          agents_progress |-> [a \in {} |-> NoRow]]
    ELSE [error |-> None,
          overall_status |-> ps[p].current_status,
          overall_progress |-> ps[p].progress_percentage,
          current_agent |-> ps[p].current_agent,
          total_chapters |-> Len(ps[p].chapters),
          total_words |-> ps[p].total_word_count,
          agents_progress |->
              [a \in {b \in AgentNames : ap[<<p, b>>].exists} |-> ap[<<p, a>>]]]

\* C15: a progress query made when a run has failed returns the status
\* `error` together with the failure message that was recorded.
C15_QueryReturnsErrorAndMessage ==
    [][\A r \in Starts :
          orchestrate_except(r) =>
             LET res == get_project_progress(projects', agent_progress',
                                             runs[r].project) IN
             /\ res.error = None
             /\ res.overall_status = "error"
             /\ \E a \in DOMAIN res.agents_progress :
                   res.agents_progress[a].error_message # None]_vars

\* ------------------------------------------------- progress reports in time
\* The reports WorldbuildingAgent.process makes: (status, progress, task,
\* error) of its four calls of update_progress.
ReportArgs ==
    { [agent |-> "WorldbuildingAgent", status |-> "running",
       progress |-> Pct(10), task |-> "Analyzing worldbuilding context",
       error |-> None],
      [agent |-> "WorldbuildingAgent", status |-> "running",
       progress |-> Pct(50), task |-> "Generating world bible",
       error |-> None],
      [agent |-> "WorldbuildingAgent", status |-> "completed",
       progress |-> Pct(100), task |-> "World bible completed",
       error |-> None],
      [agent |-> "WorldbuildingAgent", status |-> "error",
       progress |-> Pct(0), task |-> None, error |-> "service error"] }

\* BaseAgent.update_progress(p, status, progress, task, error) called by a
\* single caller and run to its end: the upsert of the row, then the update
\* of the project, both within the current tick of the clock
BaseAgent_update_progress(p, a) ==
    /\ agent_progress' =
          AgentProgressUpsert(agent_progress, p, a.agent, a.status,
                              a.progress, a.task, a.error)
    /\ projects' = ProjectProgressSet(projects, p, a.agent, a.status,
                                      a.progress)
    /\ UNCHANGED <<clock, artifact, reqs, runs>>

\* time passes
tick ==
    /\ clock < MaxClock
    /\ clock' = clock + 1
    /\ UNCHANGED <<projects, agent_progress, artifact, reqs, runs>>

NextReport ==
    \/ tick
    \/ \E p \in Projects, a \in ReportArgs : BaseAgent_update_progress(p, a)

\* progress reported, call after call, while the clock runs
SpecReport == Init /\ [][NextReport]_vars

\* the store holds what update_progress(p, a) writes
Reported(p, a) ==
    LET row == agent_progress[<<p, a.agent>>]
        doc == projects[p] IN
    /\ row.exists
    /\ row.status = a.status
    /\ row.progress_percentage = a.progress
    /\ row.current_task = a.task
    /\ row.error_message = a.error
    /\ doc.exists =>
          /\ doc.current_agent = a.agent
          /\ doc.current_status = a.status
          /\ doc.progress_percentage = a.progress

\* C16 as stated: update_progress called again with the arguments of the
\* call that wrote the stored row and project leaves both as they are.
C16_ReportIdempotent ==
    [][\A p \in Projects, a \in ReportArgs :
          (BaseAgent_update_progress(p, a) /\ Reported(p, a)) =>
             /\ agent_progress' = agent_progress
             /\ projects' = projects]_vars

\* a row or a document without its updated_at
Timeless(d) == [d EXCEPT !.updated_at = NoTime]

\* C16 amended: the repeated call leaves every field of the row and of the
\* project as it is except updated_at, which becomes the time of the
\* repeated call; no other row and no other project changes.
C16_ReportIdempotentButTime ==
    [][\A p \in Projects, a \in ReportArgs :
          (BaseAgent_update_progress(p, a) /\ Reported(p, a)) =>
             /\ \A k \in DOMAIN agent_progress :
                   Timeless(agent_progress'[k]) = Timeless(agent_progress[k])
             /\ \A o \in Projects :
                   Timeless(projects'[o]) = Timeless(projects[o])
             /\ agent_progress'[<<p, a.agent>>].updated_at = clock
             /\ projects[p].exists => projects'[p].updated_at = clock
             /\ \A k \in DOMAIN agent_progress :
                   k # <<p, a.agent>> => agent_progress'[k] = agent_progress[k]
             /\ \A o \in Projects : o # p => projects'[o] = projects[o]]_vars

C16_Witness ==
    \E a \in ReportArgs :
       /\ Reported("p1", a)
       /\ a.status = "running"
       /\ clock = MaxClock
       /\ agent_progress[<<"p1", a.agent>>].updated_at = MaxClock
       /\ projects["p1"].updated_at = MaxClock
       /\ agent_progress[<<"p2", a.agent>>].updated_at = 0

\* the exceptions with which the load of the project fails
InputErrors == {"Project not found", "validation error"}

\* C17: when the run's load of the project fails with an input error (the
\* project is missing, or its stored document is rejected by StoryProject),
\* the run leaves the project document and every progress row as they were;
\* so does a start request that finds no project.
C17_InputErrorMutatesNothing ==
    [][/\ \A r \in Starts :
             (runs[r].pc = "handler" /\ runs[r].exc \in InputErrors
                /\ orchestrate_story_generation(r)) =>
                /\ runs'[r].pc = "raised"
                /\ projects' = projects
                /\ agent_progress' = agent_progress
       /\ \A q \in Starts :
             (start_decide(q) /\ ~reqs[q].seen.exists) =>
                /\ reqs'[q].code # 200
                /\ projects' = projects
                /\ agent_progress' = agent_progress]_vars

\* ------------------------------------------------------------- termination
\* The pcs at which a run awaits the text-generation service:
\* chat.complete_async is called without a timeout, so the await ends only
\* when the service answers or fails.
ServiceCallPcs ==
    {"world_call", "char_call", "plot_call", "story_call", "check_call"}

\* a step of run r that does not wait for the text-generation service
LocalStep(r) ==
    /\ runs[r].pc \notin ServiceCallPcs
    /\ orchestrate_story_generation(r)

NextLive ==
    \/ \E q \in FaultStarts : start_find(q)
    \/ \E q \in FaultStarts : start_decide(q)
    \/ \E r \in FaultStarts : orchestrate_story_generation(r)

\* The event loop resumes every coroutine whose store operation has
\* completed, and the store answers; nothing makes the service answer.
SpecLive ==
    /\ Init
    /\ [][NextLive]_vars
    /\ \A q \in FaultStarts : WF_vars(start_decide(q))
    /\ \A r \in FaultStarts : WF_vars(LocalStep(r))

\* C18: every run that has started ends, with the project's status
\* `completed` or `error`, whether or not the service answers its calls.
C18_EveryRunEnds ==
    \A r \in FaultStarts :
       (runs[r].pc = "load") ~>
          /\ runs[r].pc \in {"returned", "raised"}
          /\ projects[runs[r].project].current_status \in {"completed", "error"}

\* ------------------------------------------------------------ two projects
\* Both projects have been created, each with one chapter to write.
InitTwo ==
    /\ projects = [p \in Projects |-> StoryProject(1)]
    /\ clock = 0
    /\ agent_progress = [k \in Projects \X AgentNames |-> NoRow]
    /\ artifact = [p \in Projects |-> FALSE]
    /\ reqs = [q \in Starts |-> NoReq]
    /\ runs = [r \in Starts |-> NoRun]

\* the pipeline over two stored projects
SpecTwo == InitTwo /\ [][Next]_vars

\* C19: a step of a run for project p leaves the document, the chapters, the
\* progress rows and the rendered file of every other project unchanged.
C19_RunsTouchOnlyTheirProject ==
    [][\A r \in Starts :
          orchestrate_story_generation(r) =>
             \A o \in Projects \ {runs[r].project} :
                /\ projects'[o] = projects[o]
                /\ \A a \in AgentNames :
                      agent_progress'[<<o, a>>] = agent_progress[<<o, a>>]
                /\ artifact'[o] = artifact[o]]_vars

C19_Witness ==
    \E r1, r2 \in Starts :
       /\ runs[r1].project = "p1"
       /\ runs[r2].project = "p2"
       /\ runs[r1].pc = "commit"
       /\ runs[r2].pc = "returned"
       /\ projects["p1"].chapters = <<>>
       /\ projects["p2"].chapters # <<>>
       /\ projects["p2"].current_status = "completed"
       /\ agent_progress[<<"p1", "SequentialCheckerAgent">>].status = "running"

\* ------------------------------------------------------- context summaries
\* content[:200] and content[:150] on the scale of the model's texts, whose
\* unit is the token: the prose prompt keeps two, the checker prompt one.
ProsePrefix == 2
CheckerPrefix == 1

\* s[:k]
Take(s, k) == SubSeq(s, 1, IF k < Len(s) THEN k ELSE Len(s))

\* chs[-k:]
LastK(chs, k) == SubSeq(chs, IF Len(chs) > k THEN Len(chs) - k + 1 ELSE 1, Len(chs))

\* the lines a summary has for one chapter: its number, its title and the
\* prefix of its content
SummaryEntry(ch, k) ==
    [chapter_number |-> ch.chapter_number, title |-> ch.title,
     key_events |-> Take(ch.content, k)]

\* mutant: the summary is built from the chapters stored for the project,
\* not from the list it is given
previous_summary_FromStore(previous_chapters) ==
    LET stored == projects["p1"].chapters IN
    IF stored = <<>>
    THEN [header |-> "", entries |-> <<>>]
    ELSE [header |-> "PREVIOUS CHAPTERS SUMMARY:",
          entries |-> [i \in 1..Len(LastK(stored, 2)) |->
                          SummaryEntry(LastK(stored, 2)[i], ProsePrefix)]]

\* previous_summary of _generate_single_chapter: empty without previous
\* chapters, else a header and the last two chapters
previous_summary(previous_chapters) ==
    IF previous_chapters = <<>>
    THEN [header |-> "", entries |-> <<>>]
    ELSE [header |-> "PREVIOUS CHAPTERS SUMMARY:",
          entries |-> [i \in 1..Len(LastK(previous_chapters, 2)) |->
                          SummaryEntry(LastK(previous_chapters, 2)[i],
                                       ProsePrefix)]]

\* SequentialCheckerAgent._get_context_summary: every previous chapter
get_context_summary(previous_chapters) ==
    IF previous_chapters = <<>>
    THEN [header |-> "No previous chapters.", entries |-> <<>>]
    ELSE [header |-> "",
          entries |-> [i \in 1..Len(previous_chapters) |->
                          SummaryEntry(previous_chapters[i], CheckerPrefix)]]

NoneLines == {"None", "none"}

\* C21: when the checker's response does not carry APPROVED, the chapter
\* returned has the response's revised text as content, with the word count
\* of that text, exactly when the response has revised text, and the draft's
\* content and count otherwise; it is passed exactly when no line of the
\* issues section is an issue, and has those lines as issues_found and the
\* lines of the fixes section as issues_fixed.
C21_VerdictReconciled ==
    [][\A r \in Starts :
          \A resp \in CheckerResponses :
             (check_call_returns(r) /\ ~resp.approved
                /\ runs'[r].chapter = CheckedChapter(runs[r].chapter, resp)) =>
                LET draft == runs[r].chapter
                    ch == runs'[r].chapter IN
                /\ ch.content = (IF resp.revised # NoText THEN resp.revised
                                 ELSE draft.content)
                /\ ch.word_count = (IF resp.revised # NoText
                                    THEN Len(resp.revised)
                                    ELSE draft.word_count)
                /\ ch.sequential_check_passed =
                      (\A i \in 1..Len(resp.issues) :
                          resp.issues[i] \in NoneLines)
                /\ \A i \in 1..Len(ch.issues_found) :
                      ch.issues_found[i] \notin NoneLines
                /\ ch.issues_fixed = resp.fixes
                /\ ch.chapter_number = draft.chapter_number
                /\ ch.title = draft.title]_vars

\* a chapter stored not passed with its draft content (issues, no revised
\* text), and a chapter stored with the revised text
C21_Witness ==
    \E p \in Projects :
       LET chs == projects[p].chapters IN
       /\ Len(chs) = 2
       /\ ~chs[1].sequential_check_passed
       /\ chs[1].content = Draft
       /\ chs[1].issues_found # <<>>
       /\ ~chs[2].sequential_check_passed
       /\ chs[2].content = Revised
       /\ chs[2].word_count = Len(Revised)

\* C22: the progress a run reports for the story generator when it begins
\* chapter n of N is 5 + (n/N)*85 percent.
C22_StoryProgressFormula ==
    [][\A r \in Starts :
          (runs[r].pc = "story_progress" /\ ~runs[r].half
             /\ orchestrate_story_generation(r)) =>
             LET row == agent_progress'[<<runs[r].project,
                                         "StoryGeneratorAgent">>] IN
             /\ row.status = "running"
             /\ FracEq(row.progress_percentage,
                       FracAdd(Pct(5), Frac(runs[r].chapter_num * 85,
                                            runs[r].chapter_count)))]_vars

\* ------------------------------------------------- the last chapter of many
MaxLongChapters == 11   \* largest target_chapters of a long project

\* chapter n as generated and then approved by the checker as it is
ApprovedDraft(n) ==
    CheckedChapter(GeneratedChapter(n, extract_title(StormLine, n), Draft),
                   [approved |-> TRUE, issues |-> <<>>, fixes |-> <<>>,
                    revised |-> NoText])

ApprovedDrafts(k) == [n \in 1..k |-> ApprovedDraft(n)]

\* What the only run of a project of N chapters has made of the store when
\* it enters the loop's iteration for chapter N, every chapter before
\* having been approved as drafted: the project document, ...
LoopEntryProject(N) ==
    IF N = 1
    THEN [StoryProject(N) EXCEPT !.current_agent = "PlotAgent",
                                 !.current_status = "completed",
                                 !.progress_percentage = Pct(100)]
    ELSE [StoryProject(N) EXCEPT !.current_agent = "SequentialCheckerAgent",
                                 !.current_status = "running",
                                 !.progress_percentage = CheckerProgress(N - 1),
                                 !.chapters = ApprovedDrafts(N - 1),
                                 !.total_word_count =
                                     SumWords(ApprovedDrafts(N - 1))]

\* ... a row as a report wrote it and as the reset left it, ...
ReportedRow(status, progress, task) ==
    [exists |-> TRUE, status |-> status, progress_percentage |-> progress,
     current_task |-> task, error_message |-> None, updated_at |-> 0]

ResetRow == [ReportedRow("pending", Pct(0), None) EXCEPT !.updated_at = NoTime]

\* ... the rows of the project, ...
LoopEntryRow(N, agent) ==
    CASE agent = "WorldbuildingAgent" ->
            ReportedRow("completed", Pct(100), "World bible completed")
      [] agent = "CharacterAgent" ->
            ReportedRow("completed", Pct(100), "Character profiles completed")
      [] agent = "PlotAgent" ->
            ReportedRow("completed", Pct(100), "Plot structure completed")
      [] agent = "StoryGeneratorAgent" ->
            IF N = 1 THEN ResetRow
            ELSE ReportedRow("running", StoryProgress(N - 1, N),
                             "Writing Chapter")
      [] agent = "SequentialCheckerAgent" ->
            IF N = 1 THEN ResetRow
            ELSE ReportedRow("running", CheckerProgress(N - 1),
                             "Checking Chapter")
      [] OTHER -> ResetRow

\* ... and the coroutine's locals.
LoopEntryRun(N) ==
    [NoRun EXCEPT !.pc = "story_progress", !.chapter_count = N,
                  !.characters = NumCharacters,
                  !.i = IF NumCharacters = 0 THEN 0 ELSE NumCharacters - 1,
                  !.chapter_num = N,
                  !.chapters = ApprovedDrafts(N - 1),
                  !.chapter = IF N = 1 THEN NoChapter ELSE ApprovedDraft(N - 1)]

LoopEntryInput(N, line, words) ==
    /\ projects = [p \in Projects |->
                      IF p = "p1"
                      THEN [LoopEntryProject(N) EXCEPT
                               !.target_words_per_chapter = words]
                      ELSE NoProject]
    /\ agent_progress =
          [k \in Projects \X AgentNames |->
              IF k[1] = "p1" THEN LoopEntryRow(N, k[2]) ELSE NoRow]
    /\ artifact = [p \in Projects |-> FALSE]
    /\ reqs = [q \in Starts |->
                  IF q = 1 THEN [NoReq EXCEPT !.pc = "done", !.code = 200]
                  ELSE NoReq]
    /\ runs = [r \in Starts |->
                  IF r = 1 THEN [LoopEntryRun(N) EXCEPT !.first_line = line,
                                                 !.target_words = words]
                  ELSE NoRun]
    /\ clock = 0

LoopEntryLine(N, line) == LoopEntryInput(N, line, TargetWordsDefault)

LoopEntry(N) == LoopEntryLine(N, StormLine)

InitLong == \E N \in 1..MaxLongChapters : LoopEntry(N)

NextLong ==
    \E r \in FaultStarts :
       \/ generate_and_check_story(r)
       \/ format_final_document(r)
       \/ orchestrate_final(r)
       \/ orchestrate_except(r)

\* the end of a run from its last chapter on, for projects of up to
\* MaxLongChapters chapters
SpecLong == InitLong /\ [][NextLong]_vars

InRange(progress) == FracLeq(Pct(0), progress) /\ FracLeq(progress, Pct(100))

\* C23: every stored percentage, the project's and every row's, is between
\* 0 and 100.
C23_ProgressInRange ==
    /\ \A p \in Projects : InRange(projects[p].progress_percentage)
    /\ \A k \in DOMAIN agent_progress :
          InRange(agent_progress[k].progress_percentage)

\* the chapter numbers lo..hi in order, lo at least 1
Window(lo, hi) ==
    LET first == IF lo < 1 THEN 1 ELSE lo IN
    [i \in 1..(hi - first + 1) |-> first + i - 1]

\* the chapter numbers of a summary's entries
SummaryNumbers(summary) ==
    [i \in 1..Len(summary.entries) |-> summary.entries[i].chapter_number]

\* C24: for chapter n the prose prompt summarises exactly the chapters
\* max(1,n-2)..n-1 and the checker prompt exactly the chapters
\* max(1,n-3)..n-1, each by a prefix of its content.
C24_ContextWindows ==
    \A r \in Starts :
       LET n == runs[r].chapter_num
           chs == runs[r].chapters IN
       /\ runs[r].pc = "story_call" =>
             /\ SummaryNumbers(previous_summary(chs)) = Window(n - 2, n - 1)
             /\ \A i \in 1..Len(previous_summary(chs).entries) :
                   LET e == previous_summary(chs).entries[i] IN
                   e.key_events = Take(chs[e.chapter_number].content, ProsePrefix)
       /\ runs[r].pc = "check_call" =>
             /\ SummaryNumbers(get_context_summary(chs)) = Window(n - 3, n - 1)
             /\ \A i \in 1..Len(get_context_summary(chs).entries) :
                   LET e == get_context_summary(chs).entries[i] IN
                   e.key_events =
                      Take(chs[e.chapter_number].content, CheckerPrefix)

\* the agent that reports at a pc
ReportingAgent(pc) ==
    CASE StageOf(pc) = 1 -> "WorldbuildingAgent"
      [] StageOf(pc) = 2 -> "CharacterAgent"
      [] StageOf(pc) = 3 -> "PlotAgent"
      [] pc = "check_progress" -> "SequentialCheckerAgent"
      [] StageOf(pc) = 5 -> "DocumentFormatter"
      [] OTHER -> "StoryGeneratorAgent"

\* the pcs at which a run makes a progress report
ReportPcs ==
    {"world_p10", "world_p50", "world_p100", "world_err", "char_p10",
     "char_loop", "char_p100", "char_err", "plot_p10", "plot_p50", "plot_p100",
     "plot_err", "story_progress", "check_progress", "story_p100", "fmt_p50",
     "fmt_p100"}

\* C25: when a progress report of a run has returned, the project document
\* names the agent that reported as current_agent and carries the percentage
\* the report wrote into the agent's row; so for the document formatter.
C25_ReportRefreshesProject ==
    [][\A r \in Starts :
          LET p == runs[r].project
              a == ReportingAgent(runs[r].pc) IN
          (orchestrate_story_generation(r) /\ runs[r].pc \in ReportPcs
             /\ runs'[r].pc # runs[r].pc) =>
             /\ projects'[p].current_agent = a
             /\ a = "DocumentFormatter" =>
                   FracEq(projects'[p].progress_percentage,
                          agent_progress'[<<p, a>>].progress_percentage)]_vars

\* C26: when a run ends successfully, the progress row of each of the six
\* stages has status completed and percentage 100.
C26_AllRowsCompletedOnSuccess ==
    [][\A r \in Starts :
          orchestrate_final(r) =>
             \A a \in AgentNames :
                LET row == agent_progress'[<<runs[r].project, a>>] IN
                /\ row.status = "completed"
                /\ FracEq(row.progress_percentage, Pct(100))]_vars

\* the row _initialize_agent_tracking writes
Reset(row) ==
    /\ row.exists
    /\ row.status = "pending"
    /\ FracEq(row.progress_percentage, Pct(0))
    /\ row.current_task = None
    /\ row.error_message = None

\* C27: when the initialization of a run has finished, before its first stage
\* executes, the rows of all six stages of the project are pending at 0 with
\* no task and no error message.
C27_RowsResetAtStart ==
    [][\A r \in Starts :
          (initialize_agent_tracking(r) /\ runs'[r].pc = "world_p10") =>
             \A a \in AgentNames :
                Reset(agent_progress'[<<runs[r].project, a>>])]_vars

\* C28: the stored chapter list of a project changes only by a commit, which
\* follows the verification of the chapter, appends that one chapter and adds
\* its word count to the total in the same update; every chapter already
\* stored stays as it was.
C28_ChaptersAppendOnly ==
    [][/\ \A p \in Projects :
             (projects[p].exists /\ projects'[p].chapters # projects[p].chapters) =>
                \E r \in Starts :
                   /\ commit_chapter(r)
                   /\ runs[r].project = p
                   /\ runs[r].chapter = runs[r].chapters[Len(runs[r].chapters)]
                   /\ projects'[p].chapters =
                         Append(projects[p].chapters, runs[r].chapter)
                   /\ projects'[p].total_word_count =
                         projects[p].total_word_count + runs[r].chapter.word_count
       /\ \A r \in Starts :
             (runs'[r].pc = "commit" /\ runs[r].pc # "commit") =>
                /\ runs[r].pc = "check_call"
                /\ runs'[r].chapter.chapter_number = runs[r].chapter_num
                /\ Len(runs'[r].chapters) = Len(runs[r].chapters) + 1]_vars

\* a run has committed its second chapter and gone on to the rendering stage
C28_Witness ==
    \E r \in Starts :
       /\ At(r, "fmt_p50")
       /\ Len(projects[runs[r].project].chapters) = 2
       /\ projects[runs[r].project].chapters = runs[r].chapters

\* the versions of chapter n that verification can hand back
Verified(n) ==
    LET draft == GeneratedChapter(n, extract_title(StormLine, n), Draft) IN
    {CheckedChapter(draft, resp) : resp \in CheckerResponses}
       \cup {CheckerFailedChapter(draft)}

\* C29: when a run starts to generate chapter n+1, its chapters 1..n have been
\* generated, verified and committed to the store, in order, and the list the
\* context of chapter n+1 is built from holds their verified versions.
C29_OneChapterAtATime ==
    \A r \in Starts :
       runs[r].pc \in {"story_progress", "story_call"} =>
          LET chs == runs[r].chapters
              stored == projects[runs[r].project].chapters IN
          /\ Len(chs) = runs[r].chapter_num - 1
          /\ \A i \in 1..Len(chs) :
                /\ chs[i].chapter_number = i
                /\ chs[i] \in Verified(i)
                /\ \E j \in 1..Len(stored) : stored[j] = chs[i]
          /\ previous_summary(chs).entries =
                [i \in 1..(IF Len(chs) < 2 THEN Len(chs) ELSE 2) |->
                    SummaryEntry(chs[Len(chs) - (IF Len(chs) < 2 THEN Len(chs) ELSE 2) + i],
                                 ProsePrefix)]

\* a run is generating chapter 2 from a first chapter the checker rewrote
C29_Witness ==
    \E r \in Starts :
       /\ At(r, "story_call")
       /\ runs[r].chapter_num = 2
       /\ runs[r].chapters[1].content = Revised
       /\ projects[runs[r].project].chapters = runs[r].chapters

\* C30: every chapter in the store carries as word_count the number of
\* whitespace-delimited tokens of its stored content, draft or revised.
C30_WordCountMatchesContent ==
    \A p \in Projects :
       \A i \in 1..Len(projects[p].chapters) :
          LET ch == projects[p].chapters[i] IN
          ch.word_count = WordCount(ch.content)

\* a project holds a chapter stored as drafted and one the checker rewrote
C30_Witness ==
    \E p \in Projects :
       \E i, j \in 1..Len(projects[p].chapters) :
          /\ projects[p].chapters[i].content = Draft
          /\ projects[p].chapters[j].content = Revised
          /\ projects[p].chapters[j].word_count = WordCount(Revised)
          /\ WordCount(Revised) # WordCount(Draft)

\* ------------------------------------------------------ titles of chapters
MaxPieces == 3   \* a first line is made of at most this many pieces

\* what first lines are made of: heading and emphasis marks, blanks, colons,
\* the word Chapter whole and in halves, digits and a letter
LinePieces ==
    {<<"#">>, <<"*">>, <<" ">>, <<":">>, ChapterWord, <<"C", "h", "a", "p">>,
     <<"t", "e", "r">>, <<"1">>, <<"2">>, <<"T">>}

RECURSIVE LinesOf(_)
LinesOf(k) ==
    IF k = 0 THEN {<<>>}
    ELSE LinesOf(k - 1) \cup {l \o p : l \in LinesOf(k - 1), p \in LinePieces}

\* the last chapter of a project is generated from a reply whose first line
\* is any line of up to MaxPieces pieces
InitTitle ==
    \E N \in {1, 2, MaxLongChapters}, line \in LinesOf(MaxPieces) :
       LoopEntryLine(N, line)

SpecTitle == InitTitle /\ [][NextLong]_vars

\* the line is nothing but heading marks, the word Chapter, the number n,
\* colons and blanks
RECURSIVE OnlyLabel(_, _)
OnlyLabel(s, n) ==
    \/ s = <<>>
    \/ \E p \in {<<"#">>, <<" ">>, <<":">>, ChapterWord, Str(n)} :
          /\ Len(p) <= Len(s)
          /\ SubSeq(s, 1, Len(p)) = p
          /\ OnlyLabel(SubSeq(s, Len(p) + 1, Len(s)), n)

\* C31: the title of a generated chapter is never empty, and when the first
\* line of the reply is nothing but heading marks, the word Chapter, the
\* chapter's number, colons and blanks, the title is "Chapter n".
C31_TitleNeverEmpty ==
    [][\A r \in Starts :
          story_call_returns(r) =>
             LET n == runs[r].chapter_num
                 title == runs'[r].chapter.title IN
             /\ title # <<>>
             /\ OnlyLabel(runs[r].first_line, n) =>
                   title = ChapterWord \o <<" ">> \o Str(n)]_vars

\* the last chapter of a long project is stored under the synthesized title
C31_Witness ==
    \E p \in Projects :
       /\ Len(projects[p].chapters) = MaxLongChapters
       /\ projects[p].chapters[MaxLongChapters].title =
             ChapterWord \o <<" ", "1", "1">>

\* ------------------------------------------- character profiles in prompts
ProfileChars == 1200   \* characters of one profile's entry as serialized
ProfileBudget == 1000  \* the [:1000] of the prose prompt

\* json.dumps(character_profiles, indent=2) for k profiles, as characters:
\* the braces and one entry for each profile
ProfilesJson(k) ==
    [i \in 1..(2 + k * ProfileChars) |->
        IF i = 1 THEN "{" ELSE IF i = 2 + k * ProfileChars THEN "}" ELSE "c"]

\* what the prose prompt embeds under CHARACTER PROFILES, before its "..."
ProsePromptProfiles(r) == Take(ProfilesJson(runs[r].characters), ProfileBudget)

\* what the checker prompt embeds under CHARACTER PROFILES
CheckerPromptProfiles(r) == ProfilesJson(runs[r].characters)

\* C32: the serialized character profiles embedded in the prompt of a prose
\* call and in the prompt of a checker call are no longer than the budget.
C32_ProfilesWithinBudget ==
    \A r \in Starts :
       /\ At(r, "story_call") => Len(ProsePromptProfiles(r)) <= ProfileBudget
       /\ At(r, "check_call") => Len(CheckerPromptProfiles(r)) <= ProfileBudget

\* C33: whenever a stored project has status completed at 100 percent, its
\* rendered document exists.
C33_CompletedHasDocument ==
    \A p \in Projects :
       (/\ projects[p].exists
        /\ projects[p].current_status = "completed"
        /\ FracEq(projects[p].progress_percentage, Pct(100))) => artifact[p]

\* C34: a stored chapter that is not passed has issues, and a stored chapter
\* that is passed has none, or has the one entry of a checker failure and no
\* fixes.
C34_OutcomeConsistent ==
    \A p \in Projects :
       \A i \in 1..Len(projects[p].chapters) :
          LET ch == projects[p].chapters[i] IN
          /\ ~ch.sequential_check_passed => Len(ch.issues_found) > 0
          /\ ch.sequential_check_passed =>
                \/ ch.issues_found = <<>>
                \/ /\ ch.issues_found = <<CheckerError>>
                   /\ ch.issues_fixed = <<>>

\* a project holds a chapter stored after a checker failure and a chapter
\* stored not passed
C34_Witness ==
    \E p \in Projects :
       \E i, j \in 1..Len(projects[p].chapters) :
          /\ projects[p].chapters[i].sequential_check_passed
          /\ projects[p].chapters[i].issues_found = <<CheckerError>>
          /\ ~projects[p].chapters[j].sequential_check_passed
          /\ Len(projects[p].chapters[j].issues_found) > 0

\* C35: a response of the checker that lists an issue under ISSUES_FOUND
\* never yields a chapter that is passed with an empty issue list, whether
\* or not the response also carries the word APPROVED.
C35_ListedIssuesNotPassed ==
    [][\A r \in Starts :
          \A resp \in CheckerResponses :
             (/\ check_call_returns(r)
              /\ runs'[r].chapter = CheckedChapter(runs[r].chapter, resp)
              /\ Len(ExtractIssues(resp)) > 0) =>
                ~(/\ runs'[r].chapter.sequential_check_passed
                  /\ runs'[r].chapter.issues_found = <<>>)]_vars

\* ------------------------------------------------------ deleting a project
\* delete_story_project: delete_one on story_projects, 404 when nothing was
\* deleted, then delete_many on the project's agent_progress rows
delete_story_project(q) ==
    \/ /\ reqs[q].pc = "new"
       /\ \E p \in Projects :
             IF projects[p].exists
             THEN /\ projects' = [projects EXCEPT ![p] = NoProject]
                  /\ reqs' = [reqs EXCEPT ![q] =
                                 [@ EXCEPT !.pc = "delete_rows", !.project = p]]
             ELSE /\ reqs' = [reqs EXCEPT ![q] =
                                 [@ EXCEPT !.pc = "done", !.project = p,
                                           !.code = 404,
                                           !.detail = "Project not found"]]
                  /\ UNCHANGED projects
       /\ UNCHANGED <<clock, agent_progress, artifact, runs>>
    \/ /\ reqs[q].pc = "delete_rows"
       /\ agent_progress' =
             [k \in DOMAIN agent_progress |->
                 IF k[1] = reqs[q].project THEN NoRow ELSE agent_progress[k]]
       /\ reqs' = [reqs EXCEPT ![q] =
                      [@ EXCEPT !.pc = "done", !.code = 200,
                                !.detail = "Project deleted"]]
       /\ UNCHANGED <<clock, projects, artifact, runs>>

\* one run of a project and one request that deletes a project
NextDelete ==
    \/ \E q \in FaultStarts : start_find(q)
    \/ \E q \in FaultStarts : start_decide(q)
    \/ \E r \in FaultStarts : orchestrate_story_generation(r)
    \/ \E q \in Starts \ FaultStarts : delete_story_project(q)

SpecDelete == Init /\ [][NextDelete]_vars

\* C36: once a request has deleted a project, the store holds no progress
\* row of that project.
C36_NoRowsAfterDelete ==
    \A q \in Starts :
       (reqs[q].pc = "done" /\ reqs[q].detail = "Project deleted") =>
          \A a \in AgentNames : ~agent_progress[<<reqs[q].project, a>>].exists

\* C37: a start request rejected because the project does not exist is
\* answered 404, one rejected because the project is running is answered
\* 400, and neither schedules a run.
C37_RejectionsKeepTheirCode ==
    \A q \in Starts :
       reqs[q].pc = "done" =>
          /\ reqs[q].detail = "404: Project not found" =>
                reqs[q].code = 404 /\ runs[q].pc = "idle"
          /\ reqs[q].detail = "400: Generation already in progress" =>
                reqs[q].code = 400 /\ runs[q].pc = "idle"

\* ------------------------------------------- the output budget of a chapter
MaxTargetWords == 3000   \* largest target_words_per_chapter of a project

\* the only chapter of a project is generated for any target word count
InitWords ==
    \E words \in 1..MaxTargetWords : LoopEntryInput(1, StormLine, words)

SpecWords == InitWords /\ [][NextLong]_vars

\* C38: for a positive target word count w the prose call is made with
\* max_tokens = min(4000, floor(w / 100) * 150), which is at least 1.
C38_OutputBudgetPositive ==
    \A r \in Starts :
       (At(r, "story_call") /\ runs[r].target_words > 0) =>
          LET w == runs[r].target_words
              m == max_tokens(w) IN
          /\ m <= 4000 /\ m <= (w \div 100) * 150
          /\ m = 4000 \/ m = (w \div 100) * 150
          /\ m >= 1

====
